---------------------------- MODULE Spec2Model ----------------------------
(***************************************************************************)
(* ScamSniff (src/app.py): the rules-based text scorer analyze_logic, the  *)
(* /api/analyze and /history handlers over the scans table, and the social *)
(* profile check (_detect_platform, _analyze_html, _score, social_check).  *)
(*                                                                         *)
(* Text is a sequence of atoms (string pieces); the text it stands for is  *)
(* the concatenation of its atoms.  Every catalog phrase is written as the *)
(* atom sequence that spells it, so `phrase in text` is "the phrase's      *)
(* atoms occur contiguously in the text's atoms".                          *)
(*                                                                         *)
(* Scores are integers in thousandths (0.10 is 100, 0.99 is 990).  Every   *)
(* weight of the program is a multiple of 0.05, and the float sums the     *)
(* program forms round to the same two decimals as the exact sums.         *)
(***************************************************************************)
EXTENDS Integers, Sequences, FiniteSets, TLC

VARIABLES
    arg,     \* analyze_logic: the argument of the call
    out,     \* analyze_logic: what the call did (idle, return, raise)
    scans,   \* table scans as committed
    last,    \* the last request handled by /api/analyze or /history
    view,    \* the rows the last /history request handed to the template
    pin,     \* _score: the arguments of the call
    pout,    \* _score: what the call did (idle, return)
    sreq,    \* social_check: the request and what _fetch got for it
    sresp    \* social_check: the response

vars == <<arg, out, scans, last, view, pin, pout, sreq, sresp>>

----------------------------------------------------------------------------
(* Bounds of the model *)

MaxLen == 3        \* atoms in a message given to analyze_logic
MaxScans == 2      \* rows in scans under SpecApi
MaxHistory == 102  \* rows in scans under SpecHistory
MaxSigs == 3       \* signals in a list given to _score

----------------------------------------------------------------------------
(* Python values and strings *)

Min(a, b) == IF a < b THEN a ELSE b
Max(a, b) == IF a > b THEN a ELSE b

PyNone == [type |-> "none", s |-> <<>>, n |-> 0]
PyStr(s) == [type |-> "str", s |-> s, n |-> 0]
PyInt(n) == [type |-> "int", s |-> <<>>, n |-> n]
\* a list of n elements
PyList(n) == [type |-> "list", s |-> <<>>, n |-> n]

\* bool(v)
Truthy(v) ==
    CASE v.type = "none" -> FALSE
      [] v.type = "str" -> v.s # <<>>
      [] v.type = "int" -> v.n # 0
      [] v.type = "list" -> v.n # 0

\* a or b
PyOr(a, b) == IF Truthy(a) THEN a ELSE b

\* str.lower() of one atom
LowerAtom(a) ==
    CASE a = "GIFT CARD" -> "gift card"
      [] a = "Urgent" -> "urgent"
      [] a = "Suspended" -> "suspended"
      [] a = "Page " -> "page "
      [] a = "Not Found" -> "not found"
      [] a = "LinkedIn.com" -> "linkedin.com"
      [] OTHER -> a

\* str.lower()
Lower(t) == [i \in 1..Len(t) |-> LowerAtom(t[i])]

IsSpace(a) == a = " "

RECURSIVE LStrip(_)
LStrip(t) == IF t # <<>> /\ IsSpace(Head(t)) THEN LStrip(Tail(t)) ELSE t

RECURSIVE RStrip(_)
RStrip(t) ==
    IF t # <<>> /\ IsSpace(t[Len(t)]) THEN RStrip(SubSeq(t, 1, Len(t) - 1)) ELSE t

\* str.strip()
Strip(t) == RStrip(LStrip(t))

\* `p in t` for strings p and t
Contains(t, p) ==
    \E i \in 0..(Len(t) - Len(p)) : \A j \in 1..Len(p) : t[i + j] = p[j]

\* t.startswith(p)
StartsWith(t, p) ==
    Len(p) <= Len(t) /\ \A j \in 1..Len(p) : t[j] = p[j]

----------------------------------------------------------------------------
(* Rules-based scoring: PHRASES, _score_bucket, analyze_logic *)

PHRASES ==
    [payment_methods |-> <<
        <<(<<"gift card">>), 600>>, <<(<<"gift card", "s">>), 600>>,
        <<(<<"bitcoin">>), 500>>, <<(<<"western union">>), 500>>,
        <<(<<"moneygram">>), 450>>,
        <<(<<"zelle">>), 400>>, <<(<<"cash", " ", "app">>), 400>>,
        <<(<<"wire transfer">>), 400>>, <<(<<"prepaid card">>), 450>>,
        <<(<<"google play card">>), 550>>,
        <<(<<"apple", " ", "gift card">>), 550>> >>,
     check_overpayment |-> <<
        <<(<<"cash", "ier's check">>), 500>>,
        <<(<<"cash", " ", "a check">>), 500>>,
        <<(<<"cash", " ", "the check">>), 500>>,
        <<(<<"overpay">>), 400>>, <<(<<"over payment">>), 400>>,
        <<(<<"refund", " ", "the extra">>), 400>>,
        <<(<<"send the rest">>), 400>>,
        <<(<<"shipping agent">>), 400>>, <<(<<"mover will pick up">>), 400>>,
        <<(<<"deposit", " ", "the check">>), 400>> >>,
     sob_story |-> <<
        <<(<<"mother is sick">>), 300>>, <<(<<"my mother's sick">>), 300>>,
        <<(<<"family emergency">>), 300>>, <<(<<"stranded">>), 300>>,
        <<(<<"hospital">>), 300>>, <<(<<"surgery">>), 300>>,
        <<(<<"dying">>), 300>> >>,
     urgency |-> <<
        <<(<<"urgent">>), 300>>, <<(<<"immediately">>), 250>>,
        <<(<<"right now">>), 200>>, <<(<<"asap">>), 200>> >>]

Signal(name, w) == [name |-> name, score |-> w]

\* the loop of _score_bucket from the k-th entry of the bucket on
RECURSIVE BucketFrom(_, _, _, _)
BucketFrom(text, list, k, acc) ==
    IF k > Len(list) THEN acc
    ELSE LET phrase == list[k][1]
             w == list[k][2]
         IN  IF Contains(text, phrase)
             THEN BucketFrom(text, list, k + 1,
                     [score |-> acc.score + w,
                      hits |-> Append(acc.hits, Signal(<<"Keyword: ">> \o phrase, w)),
                      any |-> TRUE])
             ELSE BucketFrom(text, list, k + 1, acc)

\* a bucket loop that stops at the first phrase found
RECURSIVE BucketFirstHit(_, _, _, _)
BucketFirstHit(text, list, k, acc) ==
    IF k > Len(list) THEN acc
    ELSE LET phrase == list[k][1]
             w == list[k][2]
         IN  IF Contains(text, phrase)
             THEN [score |-> acc.score + w,
                   hits |-> Append(acc.hits, Signal(<<"Keyword: ">> \o phrase, w)),
                   any |-> TRUE]
             ELSE BucketFirstHit(text, list, k + 1, acc)

ScoreBucketFirstHit(text, bucket) ==
    BucketFirstHit(text, PHRASES[bucket], 1, [score |-> 0, hits |-> <<>>, any |-> FALSE])

_score_bucket(text, bucket) ==
    BucketFrom(text, PHRASES[bucket], 1, [score |-> 0, hits |-> <<>>, any |-> FALSE])

\* the combo rules of analyze_logic: each gives the signals it appends
SobStoryCombo(pm_any, ss_any) ==
    IF pm_any /\ ss_any
    THEN <<Signal(<<"Pattern: sob story + unusual payment method">>, 250)>>
    ELSE <<>>

OverpaymentComboNoBucket(co_any, text) ==
    IF Contains(text, <<"cash">>) \/ Contains(text, <<"deposit">>)
       \/ Contains(text, <<"send the rest">>) \/ Contains(text, <<"refund">>)
    THEN <<Signal(<<"Pattern: check overpayment">>, 250)>>
    ELSE <<>>

OverpaymentCombo(co_any, text) ==
    IF co_any /\ (Contains(text, <<"cash">>) \/ Contains(text, <<"deposit">>)
                  \/ Contains(text, <<"send the rest">>) \/ Contains(text, <<"refund">>))
    THEN <<Signal(<<"Pattern: check overpayment">>, 250)>>
    ELSE <<>>

GiftCardComboPluralOnly(pm_any, ur_any, text) ==
    IF pm_any /\ ur_any /\ Contains(text, <<"gift card", "s">>)
    THEN <<Signal(<<"Pattern: urgent gift-card payment">>, 200)>>
    ELSE <<>>

GiftCardCombo(pm_any, ur_any, text) ==
    IF pm_any /\ ur_any
       /\ (Contains(text, <<"gift card">>) \/ Contains(text, <<"gift card", "s">>))
    THEN <<Signal(<<"Pattern: urgent gift-card payment">>, 200)>>
    ELSE <<>>

RECURSIVE SumScores(_)
SumScores(sigs) == IF sigs = <<>> THEN 0 ELSE Head(sigs).score + SumScores(Tail(sigs))

Baseline == 100

NoClamp(total) == total

\* max(0.0, min(total, 0.99))
Clamp(total) == Max(0, Min(total, 990))

LabelStrict(total) ==
    IF total > 750 THEN "HIGH" ELSE IF total > 450 THEN "MEDIUM" ELSE "LOW"

Label(total) ==
    IF total >= 750 THEN "HIGH" ELSE IF total >= 450 THEN "MEDIUM" ELSE "LOW"

\* round(x, 2): to the nearest hundredth, a tie to the even hundredth
Round2(x) ==
    LET q == x \div 10
        r == x % 10
    IN  IF r < 5 THEN 10 * q
        ELSE IF r > 5 THEN 10 * (q + 1)
        ELSE IF q % 2 = 0 THEN 10 * q ELSE 10 * (q + 1)

Return(v) == [kind |-> "return", value |-> v]
Raise(e) == [kind |-> "raise", value |-> e]
Idle == [kind |-> "idle", value |-> "none"]

analyze_logic(message) ==
    LET m == PyOr(message, PyStr(<<>>))
    IN  IF m.type # "str" THEN Raise("AttributeError")
        ELSE
        LET text == Lower(m.s)
            pm == _score_bucket(text, "payment_methods")
            co == _score_bucket(text, "check_overpayment")
            ss == _score_bucket(text, "sob_story")
            ur == _score_bucket(text, "urgency")
            combos == SobStoryCombo(pm.any, ss.any)
                      \o OverpaymentCombo(co.any, text)
                      \o GiftCardCombo(pm.any, ur.any, text)
            total == Clamp(Baseline + pm.score + co.score + ss.score + ur.score
                           + SumScores(combos))
        IN  Return([ok |-> TRUE,
                    summary |-> <<"Scam likelihood: ", Label(total)>>,
                    score |-> Round2(total),
                    signals |-> pm.hits \o co.hits \o ss.hits \o ur.hits \o combos,
                    echo |-> message])

----------------------------------------------------------------------------
(* The scans table, /api/analyze and /history *)

\* a row of table scans
Row(id, message, score, summary, created_at) ==
    [id |-> id, message |-> message, score |-> score, summary |-> summary,
     created_at |-> created_at]

\* table scans: its rows in insertion order, and the largest id it ever gave
\* (its entry in sqlite_sequence)
Table(rows, seq) == [rows |-> rows, seq |-> seq]
EmptyTable == Table(<<>>, 0)

\* INTEGER PRIMARY KEY AUTOINCREMENT: one more than the largest id ever given
NextId(table) == table.seq + 1

\* a connection of get_db: the committed rows and the rows of its transaction
Connect(table) == [committed |-> table, pending |-> table]

\* db.execute("INSERT INTO scans (message, score, summary, created_at) ...")
Insert(db, message, score, summary, created_at) ==
    LET id == NextId(db.pending)
    IN  [db EXCEPT !.pending =
            Table(Append(db.pending.rows, Row(id, message, score, summary, created_at)),
                  id)]

\* db.commit()
Commit(db) == [db EXCEPT !.committed = db.pending]

CloseDbKeepsPending(db) == db.pending

\* close_db at teardown: an uncommitted transaction is rolled back
close_db(db) == db.committed

\* the request's JSON body: unparsable, a list of n elements, or an object
\* whose "message" and "text" members are each absent or a value
Absent == [type |-> "absent", s |-> <<>>, n |-> 0]
InvalidBody == [kind |-> "invalid", n |-> 0, message |-> Absent, text |-> Absent]
ListBody(n) == [kind |-> "list", n |-> n, message |-> Absent, text |-> Absent]
DictBody(m, t) == [kind |-> "dict", n |-> 0, message |-> m, text |-> t]

\* dict.get(key)
Get(data, key) == IF data[key].type = "absent" THEN PyNone ELSE data[key]

Response(status, resp, table) == [status |-> status, resp |-> resp, table |-> table]

ServerError(e, db) ==
    Response(500, [ok |-> FALSE, error |-> <<"Server error: ", e>>], close_db(db))

\* api_analyze: the response and the table after teardown.
\* fault names the database call that raises, if one does.
api_analyze(method, body, now, fault, table) ==
    LET db == Connect(table)
    IN  IF method = "OPTIONS" THEN Response(204, <<>>, close_db(db))
        ELSE IF body.kind = "list" /\ body.n # 0
        THEN ServerError("AttributeError", db)
        ELSE
        LET data == IF body.kind = "dict" THEN body ELSE DictBody(Absent, Absent)
            raw == PyOr(PyOr(Get(data, "message"), Get(data, "text")), PyStr(<<>>))
        IN  IF raw.type # "str" THEN ServerError("AttributeError", db)
            ELSE
            LET message == Strip(raw.s)
            IN  IF message = <<>>
                THEN Response(400, [ok |-> FALSE, error |-> <<"message is required">>],
                              close_db(db))
                ELSE
                LET o == analyze_logic(PyStr(message))
                IN  IF o.kind = "raise" THEN ServerError(o.value, db)
                    ELSE IF fault = "execute" THEN ServerError("sqlite3.Error", db)
                    ELSE
                    LET db1 == Insert(db, message, o.value.score, o.value.summary, now)
                    IN  IF fault = "commit" THEN ServerError("sqlite3.Error", db1)
                        ELSE Response(200, o.value, close_db(Commit(db1)))

IdBefore(a, b) == a.id < b.id
IdAfter(a, b) == a.id > b.id

OrderByIdAsc(rows) == SortSeq(rows, IdBefore)

\* ORDER BY id DESC
OrderByIdDesc(rows) == SortSeq(rows, IdAfter)

HistoryLimit == 100

\* LIMIT n
Limit(rows, n) == SubSeq(rows, 1, Min(n, Len(rows)))

\* the rows history hands to the template
history(table) == Limit(OrderByIdDesc(table.rows), HistoryLimit)

----------------------------------------------------------------------------
(* Social profile check *)

\* a response to HEAD or GET; None is PyNone
NoResponse == [got |-> FALSE, status_code |-> 0, location |-> <<>>,
               html |-> [len |-> 0, og_title |-> FALSE, og_description |-> FALSE,
                         meta |-> <<>>]]
HeadResponse(status, location) ==
    [NoResponse EXCEPT !.got = TRUE, !.status_code = status, !.location = location]
GetResponse(status, html) ==
    [NoResponse EXCEPT !.got = TRUE, !.status_code = status, !.html = html]

\* a page: its length in characters, whether it holds a <meta property="og:title">
\* and a <meta property="og:description">, and the text of its title and of its
\* meta tags' contents as " ".join() leaves it
Html(len, og_title, og_description, meta) ==
    [len |-> len, og_title |-> og_title, og_description |-> og_description,
     meta |-> meta]
EmptyHtml == Html(0, FALSE, FALSE, <<>>)

UrlSeparators == {"/", "?", "#"}

\* [^/?#]+ at position i
SegmentAt(u, i) == i <= Len(u) /\ u[i] \notin UrlSeparators

\* ^https?://(www\.)? then one of hosts then "/", matched from the start of u;
\* the position after the "/", or 0
HostEnd(u, hosts) ==
    IF Len(u) >= 1 /\ u[1] \in {"http://", "https://"}
    THEN LET k == IF Len(u) >= 2 /\ u[2] = "www." THEN 3 ELSE 2
         IN  IF Len(u) >= k + 1 /\ u[k] \in hosts /\ u[k + 1] = "/" THEN k + 2 ELSE 0
    ELSE 0

\* pat.search(url) for the pattern of PLATFORMS[name], case-insensitive
PlatformMatches(name, url) ==
    LET u == Lower(url)
    IN  CASE name = "facebook" ->
               LET e == HostEnd(u, {"facebook.com"}) IN e # 0 /\ SegmentAt(u, e)
          [] name = "x" ->
               LET e == HostEnd(u, {"x.com", "twitter.com"}) IN e # 0 /\ SegmentAt(u, e)
          [] name = "linkedin" ->
               LET e == HostEnd(u, {"linkedin.com"})
               IN  e # 0 /\ Len(u) >= e + 2 /\ u[e] \in {"in", "company"}
                   /\ u[e + 1] = "/" /\ SegmentAt(u, e + 2)
          [] name = "instagram" ->
               LET e == HostEnd(u, {"instagram.com"}) IN e # 0 /\ SegmentAt(u, e)
          [] name = "tiktok" ->
               LET e == HostEnd(u, {"tiktok.com"})
               IN  e # 0 /\ Len(u) >= e + 1 /\ u[e] = "@" /\ SegmentAt(u, e + 1)

PLATFORMS == <<"facebook", "x", "linkedin", "instagram", "tiktok">>

RECURSIVE DetectFrom(_, _)
DetectFrom(url, k) ==
    IF k > Len(PLATFORMS) THEN PyNone
    ELSE IF PlatformMatches(PLATFORMS[k], Strip(url)) THEN PyStr(<<PLATFORMS[k]>>)
    ELSE DetectFrom(url, k + 1)

_detect_platform(url) == DetectFrom(url, 1)

\* {U+2019} stands for the right single quotation mark of line 264
NEG_STRINGS == <<
    <<"page isn't available">>, <<"page ", "not found">>, <<"doesn't exist">>,
    <<"not found">>, <<"this account ", "doesn{U+2019}t exist">>,
    <<"this account ", "doesn't exist">>, <<"suspended">>,
    <<"removed">>, <<"deactivated">>, <<"blocked">>, <<"you must log in">>,
    <<"sign in to continue">> >>

MissingOgTitle == <<"Missing og:", "title">>
MissingOgDescription == <<"Missing og:", "description">>
PageIndicates(bad) == <<"Page indicates:", " \"">> \o bad \o <<"\"">>
VerySmallPage == <<"Very small page", " response (login wall or error)">>
RedirectedToLogin == <<"Redirected to login (profile may be private)">>
NoHtmlFetched == <<"No HTML fetched (network error or blocked)">>

RECURSIVE NegFrom(_, _)
NegFrom(meta_text, k) ==
    IF k > Len(NEG_STRINGS) THEN <<>>
    ELSE (IF Contains(meta_text, NEG_STRINGS[k])
          THEN <<PageIndicates(NEG_STRINGS[k])>> ELSE <<>>)
         \o NegFrom(meta_text, k + 1)

SmallPageLen == 2000

_analyze_html(html) ==
    (IF ~html.og_title THEN <<MissingOgTitle>> ELSE <<>>)
    \o (IF ~html.og_description THEN <<MissingOgDescription>> ELSE <<>>)
    \o NegFrom(Lower(html.meta), 1)
    \o (IF html.len < SmallPageLen THEN <<VerySmallPage>> ELSE <<>>)

\* what one signal adds in the loop of _score
SignalPoints(s) ==
    (IF StartsWith(s, <<"Missing og:">>) THEN 50 ELSE 0)
    + (IF StartsWith(s, <<"Page indicates:">>) THEN 250 ELSE 0)
    + (IF Contains(s, <<"Very small page">>) THEN 100 ELSE 0)

RECURSIVE SigsFrom(_, _, _)
SigsFrom(sigs, k, score) ==
    IF k > Len(sigs) THEN score ELSE SigsFrom(sigs, k + 1, score + SignalPoints(sigs[k]))

ProfileBaseline == 500

StatusPointsStrict(status_code) ==
    IF Truthy(status_code) /\ status_code.n > 400 THEN 300 ELSE 0

\* if status_code and status_code >= 400: score += 0.3
StatusPoints(status_code) ==
    IF Truthy(status_code) /\ status_code.n >= 400 THEN 300 ELSE 0

PlatformPointsNever(platform_detected) == 0

\* if not platform_detected: score += 0.25
PlatformPoints(platform_detected) ==
    IF ~Truthy(platform_detected) THEN 250 ELSE 0

_score(sigs, platform_detected, status_code) ==
    Max(0, Min(1000,
        SigsFrom(sigs, 1,
                 ProfileBaseline + PlatformPoints(platform_detected)
                 + StatusPoints(status_code))))

\* social_check, given what _fetch returned for the url
social_check(url_value, head, get) ==
    LET u == PyOr(url_value, PyStr(<<>>))
    IN  IF u.type # "str" THEN Raise("AttributeError")
        ELSE
        LET url == Strip(u.s)
        IN  IF url = <<>>
            THEN Return([http |-> 400, error |-> <<"Missing 'url'">>])
            ELSE
            LET platform == _detect_platform(url)
                status == IF get.got THEN PyInt(get.status_code) ELSE PyNone
                html == IF get.got THEN get.html ELSE EmptyHtml
                sigs == (IF head.got /\ head.status_code \in {301, 302}
                            /\ Contains(Lower(head.location), <<"login">>)
                         THEN <<RedirectedToLogin>> ELSE <<>>)
                        \o (IF html.len # 0 THEN _analyze_html(html)
                            ELSE <<NoHtmlFetched>>)
                score == Round2(_score(sigs, platform, status))
            IN  Return([http |-> 200,
                        score |-> score,
                        summary |-> [platform |-> IF Truthy(platform) THEN platform.s
                                                  ELSE <<"unknown">>,
                                     http |-> IF Truthy(status) THEN status ELSE PyStr(<<"n/a">>),
                                     signals |-> Len(sigs),
                                     risk |-> score],
                        platform |-> platform,
                        status |-> status,
                        signals |-> SubSeq(sigs, 1, Min(20, Len(sigs)))])

----------------------------------------------------------------------------
(* State machine *)

NoRequest ==
    [op |-> "none", method |-> "none", body |-> InvalidBody, status |-> 0, resp |-> <<>>]
NoView == [shown |-> FALSE, rows |-> <<>>]
NoScoreCall == [sigs |-> <<>>, platform_detected |-> PyNone, status_code |-> PyNone]
NoSocialRequest == [url |-> PyNone, head |-> NoResponse, get |-> NoResponse]

\* the analyze_logic variables before any call
ScorerIdle == arg = PyNone /\ out = Idle
\* the database after init_db on a new file, before any request
ApiIdle == scans = EmptyTable /\ last = NoRequest /\ view = NoView
ProfileIdle == pin = NoScoreCall /\ pout = Idle
SocialIdle == sreq = NoSocialRequest /\ sresp = Idle

\* texts of at most n atoms over an alphabet
Texts(alphabet, n) == UNION {[1..k -> alphabet] : k \in 0..n}

ScorerAtoms ==
    {"gift card", "s", "GIFT CARD", "zelle", "cash", "overpay", "hospital",
     "urgent", "immediately", "right now", "asap", " "}

ScorerArgs ==
    {PyStr(t) : t \in Texts(ScorerAtoms, MaxLen)}
    \cup {PyNone, PyInt(0), PyInt(7), PyList(0), PyList(2)}

InitScorer ==
    /\ arg \in ScorerArgs
    /\ out = Idle
    /\ ApiIdle /\ ProfileIdle /\ SocialIdle

\* one call analyze_logic(arg)
AnalyzeLogicCall ==
    /\ out = Idle
    /\ out' = analyze_logic(arg)
    /\ UNCHANGED <<arg, scans, last, view, pin, pout, sreq, sresp>>

NextScorer == AnalyzeLogicCall

Spec == InitScorer /\ [][NextScorer]_vars

ApiFields ==
    {Absent, PyNone, PyInt(5), PyStr(<<" ">>), PyStr(<<" ", "urgent", " ">>)}
ApiTextFields == {Absent, PyStr(<<"zelle">>)}
ApiBodies ==
    {InvalidBody, ListBody(0), ListBody(1)}
    \cup {DictBody(m, t) : m \in ApiFields, t \in ApiTextFields}
\* datetime.now(timezone.utc), as a tick of the wall clock
Times == {0, 1}
Faults == {"none", "execute", "commit"}

InitApi ==
    /\ ApiIdle /\ ScorerIdle /\ ProfileIdle /\ SocialIdle

\* one POST or OPTIONS /api/analyze
ApiAnalyze(method, body, now, fault) ==
    \E r \in {api_analyze(method, body, now, fault, scans)} :
        /\ scans' = r.table
        /\ last' = [op |-> "api_analyze", method |-> method, body |-> body,
                    status |-> r.status, resp |-> r.resp]
        /\ UNCHANGED <<arg, out, view, pin, pout, sreq, sresp>>

\* one GET /history
History ==
    /\ view' = [shown |-> TRUE, rows |-> history(scans)]
    /\ last' = [op |-> "history", method |-> "GET", body |-> InvalidBody,
                status |-> 200, resp |-> <<>>]
    /\ UNCHANGED <<arg, out, scans, pin, pout, sreq, sresp>>

NextApi ==
    \/ \E body \in ApiBodies, now \in Times, fault \in Faults :
          ApiAnalyze("POST", body, now, fault) /\ Len(scans'.rows) <= MaxScans
    \/ ApiAnalyze("OPTIONS", InvalidBody, 0, "none")
    \/ History

SpecApi == InitApi /\ [][NextApi]_vars

HistoryBody == DictBody(PyStr(<<"gift card", "urgent">>), Absent)

NextHistory ==
    \/ ApiAnalyze("POST", HistoryBody, 0, "none") /\ Len(scans'.rows) <= MaxHistory
    \/ History

SpecHistory == InitApi /\ [][NextHistory]_vars

ProducedSignals ==
    {RedirectedToLogin, NoHtmlFetched, MissingOgTitle, MissingOgDescription,
     PageIndicates(<<"not found">>), PageIndicates(<<"suspended">>), VerySmallPage}

ScoreCalls ==
    [sigs : Texts(ProducedSignals, MaxSigs),
     platform_detected : {PyNone, PyStr(<<"facebook">>)},
     status_code : {PyNone, PyInt(0), PyInt(200), PyInt(399), PyInt(400), PyInt(404)}]

InitProfile ==
    /\ pin \in ScoreCalls
    /\ pout = Idle
    /\ ScorerIdle /\ ApiIdle /\ SocialIdle

\* one call _score(sigs, platform_detected, status_code)
ScoreCall ==
    /\ pout = Idle
    /\ pout' = Return(_score(pin.sigs, pin.platform_detected, pin.status_code))
    /\ UNCHANGED <<arg, out, scans, last, view, pin, sreq, sresp>>

NextProfile == ScoreCall

SpecProfile == InitProfile /\ [][NextProfile]_vars

Urls ==
    {PyNone, PyInt(5), PyStr(<<" ">>),
     PyStr(<<"https://", "www.", "linkedin.com", "/", "in", "/", "johndoe">>),
     PyStr(<<"https://", "LinkedIn.com", "/", "company", "/", "johndoe">>),
     PyStr(<<"https://", "linkedin.com", "/", "johndoe">>),
     PyStr(<<"https://", "example.com", "/", "johndoe">>),
     PyStr(<<" ", "http://", "facebook.com", "/", "johndoe", " ">>),
     PyStr(<<"https://", "facebook.com", "/">>),
     PyStr(<<"https://", "twitter.com", "/", "johndoe", "?", "lang">>),
     PyStr(<<"https://", "www.", "instagram.com", "/", "johndoe">>),
     PyStr(<<"https://", "tiktok.com", "/", "@", "johndoe">>),
     PyStr(<<"https://", "tiktok.com", "/", "johndoe">>),
     PyStr(<<"ftp://", "x.com", "/", "johndoe">>)}

Metas ==
    {<<"John Doe">>, <<"Page ", "Not Found">>, <<"this account ", "doesn't exist">>,
     <<"Suspended">>}
Htmls ==
    {EmptyHtml}
    \cup {Html(n, t, d, m) : n \in {SmallPageLen - 1, SmallPageLen},
                             t \in BOOLEAN, d \in BOOLEAN, m \in Metas}
Heads ==
    {NoResponse, HeadResponse(200, <<>>), HeadResponse(302, <<"/", "login">>),
     HeadResponse(301, <<"/", "home">>), HeadResponse(404, <<"/", "login">>)}
Gets == {NoResponse} \cup {GetResponse(st, h) : st \in {200, 404}, h \in Htmls}

\* a request's "url" member, and the head and get that _fetch returns for it
InitSocial ==
    /\ sreq \in [url : Urls, head : Heads, get : Gets]
    /\ sresp = Idle
    /\ ScorerIdle /\ ApiIdle /\ ProfileIdle

\* one POST /api/social_check
SocialCheck ==
    /\ sresp = Idle
    /\ sresp' = social_check(sreq.url, sreq.head, sreq.get)
    /\ UNCHANGED <<arg, out, scans, last, view, pin, pout, sreq>>

NextSocial == SocialCheck

SpecSocial == InitSocial /\ [][NextSocial]_vars

----------------------------------------------------------------------------
(* Properties of analyze_logic, under Spec *)

Returned == out.kind = "return"

\* the lower-cased text of a call that returned
CallText == Lower(PyOr(arg, PyStr(<<>>)).s)

AllTriggers ==
    PHRASES.payment_methods \o PHRASES.check_overpayment
    \o PHRASES.sob_story \o PHRASES.urgency

Occurs(text, phrase) == Contains(text, phrase)

CategoryHit(text, category) ==
    \E k \in 1..Len(PHRASES[category]) : Occurs(text, PHRASES[category][k][1])

\* the weights of the first k catalog triggers that occur in the text
RECURSIVE TriggerWeights(_, _)
TriggerWeights(text, k) ==
    IF k = 0 THEN 0
    ELSE (IF Occurs(text, AllTriggers[k][1]) THEN AllTriggers[k][2] ELSE 0)
         + TriggerWeights(text, k - 1)

SobStoryFires(text) ==
    CategoryHit(text, "payment_methods") /\ CategoryHit(text, "sob_story")
OverpaymentFires(text) ==
    /\ CategoryHit(text, "check_overpayment")
    /\ \E lit \in {<<"cash">>, <<"deposit">>, <<"send the rest">>, <<"refund">>} :
          Occurs(text, lit)
GiftCardFires(text) ==
    /\ CategoryHit(text, "payment_methods") /\ CategoryHit(text, "urgency")
    /\ Occurs(text, <<"gift card">>)

\* T of the text: baseline, trigger weights and combo bonuses, unclamped
UnclampedTotal(text) ==
    100 + TriggerWeights(text, Len(AllTriggers))
    + (IF SobStoryFires(text) THEN 250 ELSE 0)
    + (IF OverpaymentFires(text) THEN 250 ELSE 0)
    + (IF GiftCardFires(text) THEN 200 ELSE 0)

ResultLabel == out.value.summary[2]

\* C1 as stated: the returned score is round(min(1, max(0, T)), 2), T being the
\* baseline 0.10 plus the weight of every catalog trigger occurring in the
\* lower-cased message plus the bonus of every combo rule that fires.
C1_ScoreClampedToOne ==
    Returned => out.value.score = Round2(Min(1000, Max(0, UnclampedTotal(CallText))))

\* C1 amended: the returned score is round(min(0.99, max(0, T)), 2) for the
\* same T: the total is clamped to [0, 0.99].
C1_ScoreClampedTo099 ==
    Returned => out.value.score = Round2(Min(990, Max(0, UnclampedTotal(CallText))))

\* C1 witness: a call returned whose T exceeds 1 with two combo rules firing
C1_Witness ==
    /\ Returned /\ arg.type = "str"
    /\ UnclampedTotal(CallText) > 1000
    /\ SobStoryFires(CallText) /\ GiftCardFires(CallText)
    /\ out.value.score = 990

\* C2: the score analyze_logic returns lies in [0, 1], whatever matches.
C2_ScoreInUnitInterval ==
    Returned => out.value.score >= 0 /\ out.value.score <= 1000

\* C2 witness: a returned call whose triggers and combos sum to more than 1
C2_Witness ==
    /\ Returned
    /\ UnclampedTotal(CallText) >= 1300
    /\ OverpaymentFires(CallText)

\* C3: the label of the summary is HIGH iff score >= 0.75, MEDIUM iff
\* 0.45 <= score < 0.75, and LOW otherwise.
C3_LabelFollowsScore ==
    Returned =>
        /\ out.value.summary[1] = "Scam likelihood: "
        /\ (ResultLabel = "HIGH") <=> (out.value.score >= 750)
        /\ (ResultLabel = "MEDIUM") <=> (out.value.score >= 450 /\ out.value.score < 750)
        /\ (ResultLabel = "LOW") <=> (out.value.score < 450)

\* C3 witness: a score of exactly 0.75, labelled HIGH
C3_Witness == Returned /\ out.value.score = 750 /\ ResultLabel = "HIGH"

NoTrigger(text) ==
    \A k \in 1..Len(AllTriggers) : ~Occurs(text, AllTriggers[k][1])

BaselineOnly ==
    /\ Returned
    /\ out.value.score = 100
    /\ out.value.signals = <<>>
    /\ ResultLabel = "LOW"

\* C4: a text holding no catalog trigger, the empty string included, gets the
\* baseline-only score 0.10, no signal and the label LOW.
C4_NoTriggerIsBaseline ==
    (out # Idle /\ arg.type = "str" /\ NoTrigger(Lower(arg.s))) => BaselineOnly

\* C4 witness: a non-empty text without a trigger ("cash " alone) was scored
C4_Witness ==
    /\ Returned /\ arg = PyStr(<<"cash", " ">>)
    /\ out.value.score = 100

\* C5 as stated: every non-string argument is treated as the empty string:
\* the call raises nothing and returns the baseline-only result.
C5_NonStringIsEmptyString ==
    (out # Idle /\ arg.type # "str") => BaselineOnly

UrgencyTriggers == {<<"urgent">>, <<"immediately">>, <<"right now">>, <<"asap">>}

HasSignal(name) ==
    \E i \in 1..Len(out.value.signals) : out.value.signals[i].name = name

GiftCardUrgent(text) ==
    Occurs(text, <<"gift card">>) /\ \E u \in UrgencyTriggers : Occurs(text, u)

\* C6: when the lower-cased text holds "gift card" and an urgency trigger, the
\* signals hold "Keyword: gift card", the keyword signal of every urgency
\* trigger matched and "Pattern: urgent gift-card payment", the score is
\* >= 0.75 and the label is HIGH.
C6_UrgentGiftCardIsHigh ==
    (out # Idle /\ arg.type = "str" /\ GiftCardUrgent(Lower(arg.s))) =>
        /\ Returned
        /\ HasSignal(<<"Keyword: ", "gift card">>)
        /\ \A u \in UrgencyTriggers :
              Occurs(Lower(arg.s), u) => HasSignal(<<"Keyword: ">> \o u)
        /\ HasSignal(<<"Pattern: urgent gift-card payment">>)
        /\ out.value.score >= 750
        /\ ResultLabel = "HIGH"

\* C6 witness: "gift cards right now" was scored
C6_Witness ==
    /\ Returned /\ arg = PyStr(<<"gift card", "s", "right now">>)
    /\ HasSignal(<<"Keyword: ", "right now">>)

----------------------------------------------------------------------------
(* Properties of /api/analyze and /history *)

\* the request's message: the first of "message" and "text" that is not
\* absent or empty, trimmed
RequestMessage(body) ==
    LET m == IF body.kind = "dict" THEN body.message ELSE Absent
        t == IF body.kind = "dict" THEN body.text ELSE Absent
        given(f) == f.type = "str" /\ f.s # <<>>
    IN  IF given(m) THEN Strip(m.s) ELSE IF given(t) THEN Strip(t.s) ELSE <<>>

\* the request carries nothing but absent, null or empty members
NothingGiven(body) ==
    \/ body.kind = "invalid"
    \/ body.kind = "list" /\ body.n = 0
    \/ body.kind = "dict" /\ body.message.type \in {"absent", "none", "str"}
       /\ body.text.type \in {"absent", "none", "str"}

\* C7: the scans log is append-only and changes only on success.  A request
\* answered 200 appends exactly one record, holding the trimmed message and
\* the score and summary of the result returned; a request answered 400
\* (message and text absent or empty after trimming) or 500 leaves the log
\* as it was (as does an OPTIONS request, answered 204); no step updates or
\* deletes a record.
C7_AppendOnlyOnSuccess ==
    [][/\ Len(scans'.rows) >= Len(scans.rows)
       /\ SubSeq(scans'.rows, 1, Len(scans.rows)) = scans.rows
       /\ last'.op = "api_analyze" =>
            /\ last'.status \in {200, 204, 400, 500}
            /\ last'.method = "POST" => last'.status \in {200, 400, 500}
            /\ last'.status = 200 =>
                 /\ Len(scans'.rows) = Len(scans.rows) + 1
                 /\ scans'.rows[Len(scans'.rows)].message = RequestMessage(last'.body)
                 /\ RequestMessage(last'.body) # <<>>
                 /\ scans'.rows[Len(scans'.rows)].score = last'.resp.score
                 /\ scans'.rows[Len(scans'.rows)].summary = last'.resp.summary
            /\ last'.status # 200 => scans'.rows = scans.rows
            /\ (last'.method = "POST" /\ NothingGiven(last'.body)
                /\ RequestMessage(last'.body) = <<>>) => last'.status = 400
       /\ last'.op # "api_analyze" => scans'.rows = scans.rows
      ]_vars

\* C7 witness: a second record was appended by a request whose message was
\* trimmed, after which a request failed with 500
C7_Witness ==
    /\ Len(scans.rows) = 2
    /\ scans.rows[2].message = <<"urgent">>
    /\ scans.rows[1].message # <<"urgent">>
    /\ last.op = "api_analyze" /\ last.status = 500

\* the n newest records of the log, the newest first
NewestFirst(log, n) ==
    [i \in 1..Min(n, Len(log)) |-> log[Len(log) - i + 1]]

\* C8: the history view lists the stored scans most-recent-first (a record
\* appended later precedes every record appended earlier) and holds the 100
\* most recent records at most.
C8_HistoryMostRecentFirst ==
    last.op = "history" =>
        /\ view.shown
        /\ Len(view.rows) <= 100
        /\ view.rows = NewestFirst(scans.rows, 100)

\* C8 witness: the history of a log of more than 100 records
C8_Witness ==
    /\ last.op = "history"
    /\ Len(scans.rows) > 100
    /\ Len(view.rows) = 100
    /\ view.rows[1] = scans.rows[Len(scans.rows)]

----------------------------------------------------------------------------
(* Properties of the profile scorer *)

MissingMetadataSignals == {MissingOgTitle, MissingOgDescription}
NegativePhraseSignals == {PageIndicates(NEG_STRINGS[k]) : k \in 1..Len(NEG_STRINGS)}
VerySmallPageSignals == {VerySmallPage}

Count(sigs, kind) == Cardinality({i \in 1..Len(sigs) : sigs[i] \in kind})

Composition(sigs, platform_detected, status_code) ==
    500
    + (IF platform_detected = PyNone THEN 250 ELSE 0)
    + (IF status_code.type = "int" /\ status_code.n >= 400 THEN 300 ELSE 0)
    + 50 * Count(sigs, MissingMetadataSignals)
    + 250 * Count(sigs, NegativePhraseSignals)
    + 100 * Count(sigs, VerySmallPageSignals)

\* C9: the profile score is 0.5, plus 0.25 if no platform was detected, plus
\* 0.3 if a status was observed and is >= 400, plus 0.05 per missing-metadata
\* signal, 0.25 per negative-phrase signal and 0.1 per very-small-page signal,
\* any other signal adding nothing, clamped to [0, 1]; an undetected platform
\* with no status and only the no-content signal scores 0.75.
C9_ProfileScoreComposition ==
    pout.kind = "return" =>
        /\ pout.value = Max(0, Min(1000,
                    Composition(pin.sigs, pin.platform_detected, pin.status_code)))
        /\ (pin.sigs = <<NoHtmlFetched>> /\ pin.platform_detected = PyNone
            /\ pin.status_code = PyNone) => pout.value = 750

\* C9 witness: two signals of one kind each added, with an observed status of
\* exactly 400, and the sum was clamped
C9_Witness ==
    /\ pout = Return(1000)
    /\ pin.status_code = PyInt(400)
    /\ pin.platform_detected # PyNone
    /\ pin.sigs = <<PageIndicates(<<"not found">>), PageIndicates(<<"not found">>),
                    NoHtmlFetched>>

\* the request reached _fetch and its GET got no response
FetchFailed ==
    /\ sresp # Idle
    /\ sreq.url.type = "str" /\ Strip(sreq.url.s) # <<>>
    /\ ~sreq.get.got

\* the signals of the response but the redirect signal put before them
StructuralSignals(sigs) ==
    IF sigs # <<>> /\ Head(sigs) = RedirectedToLogin THEN Tail(sigs) ELSE sigs

NormalNoContentResponse ==
    /\ sresp.kind = "return"
    /\ sresp.value.http = 200
    /\ sresp.value.status = PyNone
    /\ StructuralSignals(sresp.value.signals) = <<NoHtmlFetched>>

\* C10 as stated: when the GET of the profile page fails, the response is a
\* normal one whose structural signals are the one no-content signal and whose
\* score is strictly above the 0.5 baseline, for every URL.
C10_FetchFailureElevated ==
    FetchFailed => NormalNoContentResponse /\ sresp.value.score > 500

\* C10 amended: when the GET of the profile page fails, the response is a
\* normal one whose structural signals are the one no-content signal; its
\* score is 0.75 when the URL matches no known platform and is the 0.5
\* baseline itself when it matches one.
C10_FetchFailureScore ==
    FetchFailed =>
        /\ NormalNoContentResponse
        /\ sresp.value.score = IF sresp.value.platform = PyNone THEN 750 ELSE 500

\* C10 witness: the fetch of a LinkedIn profile failed after a redirect to
\* the login page, and the response scores 0.5
C10_Witness ==
    /\ FetchFailed
    /\ sresp.value.platform = PyStr(<<"linkedin">>)
    /\ sresp.value.signals = <<RedirectedToLogin, NoHtmlFetched>>
    /\ sresp.value.score = 500

=============================================================================
